---- MODULE Spec2Model ----
(***************************************************************************)
(* CRUD-API (src/index.ts): a primary process that forks workers and runs  *)
(* a "load balancer" listener, and worker processes that each serve the    *)
(* user CRUD API over their own in-memory `users` array.                   *)
(*                                                                         *)
(* JSON values are tagged records [t |-> <type>, v |-> <content>], so that *)
(* `typeof`, Array.isArray and the spread of an object are computed from   *)
(* the value as the code computes them.                                    *)
(***************************************************************************)
EXTENDS Integers, Sequences, FiniteSets, TLC

\* ------------------------------------------------------------------ bounds
\* cpus().length is drawn from 1..MaxCPUs (1..MaxCPUs + 1 where only the
\* dispatch is looked at)
MaxCPUs == 2
\* uuidv4() is called at most MaxIds times in a behaviour
MaxIds == 2
\* requests of one process whose body is still arriving
MaxPending == 1
\* connections the load balancer has accepted
MaxConns == 2
\* uuidv4() calls where the order of the records of an array is looked at
MaxStoreIds == 3
\* requests of one process whose body is still arriving, where the order of
\* the end events is looked at
MaxOverlap == 2

\* ------------------------------------------------------------- JSON values
Str(s) == [t |-> "string", v |-> s]
Num(n) == [t |-> "number", v |-> n]
Arr(s) == [t |-> "array", v |-> s]
Obj(f) == [t |-> "object", v |-> f]
JNull == [t |-> "null"]
\* Number.NaN: typeof is "number"; JSON.parse never produces it
NaN == [t |-> "nan"]
\* the value of a missing property
Undefined == [t |-> "undefined"]
EmptyObj == Obj(<<>>)

\* typeof x
TypeOf(x) ==
    CASE x.t = "string" -> "string"
      [] x.t = "number" -> "number"
      [] x.t = "nan" -> "number"
      [] x.t = "undefined" -> "undefined"
      [] OTHER -> "object"

IsArray(x) == x.t = "array"
NumberIsNaN(x) == x.t = "nan"

\* String.prototype.trim on the strings of the model: the ones that start or
\* end with white space are listed, the others are returned as they are.
Trim(s) ==
    CASE s = "  " -> ""
      [] s = " John Doe " -> "John Doe"
      [] OTHER -> s

\* the own properties of a value: those of an object; null has none
Props(x) == IF x.t = "object" THEN x.v ELSE <<>>

\* obj.key: a property of an object value, undefined when it has none
Get(obj, key) == IF key \in DOMAIN Props(obj) THEN Props(obj)[key] ELSE Undefined

\* { ...a, ...b } : own enumerable properties of a, then those of b over them.
\* null (and a number) spread to nothing.
Spread(a, b) ==
    LET pa == Props(a)
        pb == Props(b)
    IN Obj([k \in (DOMAIN pa) \cup (DOMAIN pb) |->
              IF k \in DOMAIN pb THEN pb[k] ELSE pa[k]])

\* JSON.stringify followed by the client's JSON.parse: NaN becomes null and
\* undefined properties are dropped, everything else comes back as it was.
JsonScalar(x) == IF x.t = "nan" THEN JNull ELSE x
JsonObject(o) ==
    Obj([k \in {f \in DOMAIN o.v : o.v[f].t # "undefined"} |->
           IF o.v[k].t = "array"
           THEN Arr([i \in DOMAIN o.v[k].v |-> JsonScalar(o.v[k].v[i])])
           ELSE JsonScalar(o.v[k])])
JSONStringify(x) ==
    CASE x.t = "object" -> JsonObject(x)
      [] x.t = "array" -> Arr([i \in DOMAIN x.v |-> JsonObject(x.v[i])])
      [] OTHER -> JsonScalar(x)

\* ------------------------------------------------------------------- uuid
\* uuidv4() returns the next element of GenUUIDs: a value it never returned
\* before and that no client can have sent before it was returned.
GenUUIDs == << "1b9d6bcd-bbfd-4b2d-9b5d-ab8dfbbd4bed",
               "9c858901-8a57-4791-81fe-4c455b099bc9",
               "6ec0bd7f-11c0-43da-975e-2a8ad9ebae0b",
               "7c9e6679-7425-40de-944b-e07fc1f90ae7" >>
\* a string that is no UUID
BadId == "abc"
\* the strings of the model that validate() of the uuid package accepts
WellFormed == {GenUUIDs[i] : i \in DOMAIN GenUUIDs}

isValidUUID(id) == id \in WellFormed

\* ------------------------------------------------------------ the handlers
\* sendResponse: the status and the serialised data written to `res`
sendResponse(statusCode, data) ==
    [status |-> statusCode, body |-> JSONStringify(data)]

Message(text) == Obj([message |-> Str(text)])
\* `User with id ${userId} not found.`
NotFoundMessage(userId) ==
    Obj([message |-> [t |-> "string", v |-> "User with id ${userId} not found.",
                      userId |-> userId]])

\* users.findIndex((u) => u.id === userId); 0 stands for -1 (indices start
\* at 1 here)
FindIndex(list, userId) ==
    LET hits == {i \in DOMAIN list : Get(list[i], "id") = Str(userId)}
    IN IF hits = {} THEN 0 ELSE CHOOSE i \in hits : \A j \in hits : i <= j

\* what a handler leaves behind: the array and the response
Outcome(list, resp) == [users |-> list, resp |-> resp]

getAllUsers(list) == Outcome(list, sendResponse(200, Arr(list)))

\* users.find((u) => u.id) in place of the comparison: the first user whose
\* id is truthy
getUserById_AnyUser(list, userId) ==
    IF ~isValidUUID(userId)
    THEN Outcome(list, sendResponse(400, Message("Invalid userId format")))
    ELSE IF list = <<>>
         THEN Outcome(list, sendResponse(404, NotFoundMessage(userId)))
         ELSE Outcome(list, sendResponse(200, list[1]))

getUserById(list, userId) ==
    IF ~isValidUUID(userId)
    THEN Outcome(list, sendResponse(400, Message("Invalid userId format")))
    ELSE LET i == FindIndex(list, userId)
         IN IF i = 0
            THEN Outcome(list, sendResponse(404, NotFoundMessage(userId)))
            ELSE Outcome(list, sendResponse(200, list[i]))

\* const { name, age, hobbies } = data throws a TypeError for null
DestructureThrows(data) == data.t \in {"null", "undefined"}

\* Array.isArray(hobbies) alone, without the check of the elements
validateUserData_AnyArray(data) ==
    LET name == Get(data, "name")
        age == Get(data, "age")
        hobbies == Get(data, "hobbies")
    IN IF TypeOf(name) # "string" \/ Trim(name.v) = "" THEN FALSE
       ELSE IF TypeOf(age) # "number" \/ NumberIsNaN(age) THEN FALSE
       ELSE IsArray(hobbies)

validateUserData(data) ==
    LET name == Get(data, "name")
        age == Get(data, "age")
        hobbies == Get(data, "hobbies")
    IN IF TypeOf(name) # "string" \/ Trim(name.v) = "" THEN FALSE
       ELSE IF TypeOf(age) # "number" \/ NumberIsNaN(age) THEN FALSE
       ELSE IF ~IsArray(hobbies)
               \/ ~(\A i \in DOMAIN hobbies.v : TypeOf(hobbies.v[i]) = "string")
            THEN FALSE
       ELSE TRUE

\* { id: uuidv4(), ...body } in place of the four fields picked one by one
createUser_SpreadsBody(list, body, uuid) ==
    IF ~validateUserData(body)
    THEN Outcome(list, sendResponse(400, Message("Invalid user data.")))
    ELSE LET newUser == Spread(Obj([id |-> Str(uuid)]), body)
         IN Outcome(Append(list, newUser), sendResponse(201, newUser))

\* createUser, for a body that can be destructured; uuid is what uuidv4()
\* returns
createUser(list, body, uuid) ==
    IF ~validateUserData(body)
    THEN Outcome(list, sendResponse(400, Message("Invalid user data.")))
    ELSE LET newUser == Obj([id |-> Str(uuid),
                             name |-> Get(body, "name"),
                             age |-> Get(body, "age"),
                             hobbies |-> Get(body, "hobbies")])
         IN Outcome(Append(list, newUser), sendResponse(201, newUser))

\* { id: userId, ...body } in place of the spread of the stored user
updateUser_ReplacesUser(list, userId, body) ==
    IF ~isValidUUID(userId)
    THEN Outcome(list, sendResponse(400, Message("Invalid userId format.")))
    ELSE LET userIndex == FindIndex(list, userId)
         IN IF userIndex = 0
            THEN Outcome(list, sendResponse(404, NotFoundMessage(userId)))
            ELSE LET updatedUser == Spread(Obj([id |-> Str(userId)]), body)
                 IN Outcome([list EXCEPT ![userIndex] = updatedUser],
                            sendResponse(200, updatedUser))

updateUser(list, userId, body) ==
    IF ~isValidUUID(userId)
    THEN Outcome(list, sendResponse(400, Message("Invalid userId format.")))
    ELSE LET userIndex == FindIndex(list, userId)
         IN IF userIndex = 0
            THEN Outcome(list, sendResponse(404, NotFoundMessage(userId)))
            ELSE LET updatedUser == Spread(list[userIndex], body)
                 IN Outcome([list EXCEPT ![userIndex] = updatedUser],
                            sendResponse(200, updatedUser))

\* users.splice(userIndex, 1)
Splice(list, i) == [k \in 1..(Len(list) - 1) |-> IF k < i THEN list[k] ELSE list[k + 1]]

\* the lookup before the check of the format of the id
deleteUser_LooksUpFirst(list, userId) ==
    LET userIndex == FindIndex(list, userId)
    IN IF userIndex # 0
       THEN Outcome(Splice(list, userIndex), sendResponse(204, EmptyObj))
       ELSE IF ~isValidUUID(userId)
            THEN Outcome(list, sendResponse(400, Message("Invalid userId format.")))
            ELSE Outcome(list, sendResponse(404, NotFoundMessage(userId)))

\* the last user moved into the place of the removed one, then pop()
deleteUser_SwapRemove(list, userId) ==
    IF ~isValidUUID(userId)
    THEN Outcome(list, sendResponse(400, Message("Invalid userId format.")))
    ELSE LET userIndex == FindIndex(list, userId)
         IN IF userIndex = 0
            THEN Outcome(list, sendResponse(404, NotFoundMessage(userId)))
            ELSE Outcome([k \in 1..(Len(list) - 1) |->
                            IF k = userIndex THEN list[Len(list)] ELSE list[k]],
                         sendResponse(204, EmptyObj))

deleteUser(list, userId) ==
    IF ~isValidUUID(userId)
    THEN Outcome(list, sendResponse(400, Message("Invalid userId format.")))
    ELSE LET userIndex == FindIndex(list, userId)
         IN IF userIndex = 0
            THEN Outcome(list, sendResponse(404, NotFoundMessage(userId)))
            ELSE Outcome(Splice(list, userIndex), sendResponse(204, EmptyObj))

\* ------------------------------------------------------------------ routing
\* req.url.split('/') is the url of the model; filter(Boolean) drops the
\* empty segments
RECURSIVE FilterBoolean(_)
FilterBoolean(parts) ==
    IF parts = <<>> THEN <<>>
    ELSE IF Head(parts) = "" THEN FilterBoolean(Tail(parts))
    ELSE <<Head(parts)>> \o FilterBoolean(Tail(parts))

\* urlParts.length >= 3 in place of === 3 for a GET by id
Route_GetAnyLength(method, url) ==
    LET urlParts == FilterBoolean(url)
    IN IF Len(urlParts) >= 2 /\ urlParts[1] = "api" /\ urlParts[2] = "users"
       THEN IF method = "GET" /\ Len(urlParts) = 2 THEN [op |-> "getAllUsers"]
            ELSE IF method = "GET" /\ Len(urlParts) >= 3
                 THEN [op |-> "getUserById", userId |-> urlParts[3]]
            ELSE IF method = "POST" /\ Len(urlParts) = 2 THEN [op |-> "createUser"]
            ELSE IF method = "PUT" /\ Len(urlParts) = 3
                 THEN [op |-> "updateUser", userId |-> urlParts[3]]
            ELSE IF method = "DELETE" /\ Len(urlParts) = 3
                 THEN [op |-> "deleteUser", userId |-> urlParts[3]]
            ELSE [op |-> "endpointNotFound"]
       ELSE [op |-> "resourceNotFound"]

\* the branch of requestListener a request takes
Route(method, url) ==
    LET urlParts == FilterBoolean(url)
    IN IF Len(urlParts) >= 2 /\ urlParts[1] = "api" /\ urlParts[2] = "users"
       THEN IF method = "GET" /\ Len(urlParts) = 2 THEN [op |-> "getAllUsers"]
            ELSE IF method = "GET" /\ Len(urlParts) = 3
                 THEN [op |-> "getUserById", userId |-> urlParts[3]]
            ELSE IF method = "POST" /\ Len(urlParts) = 2 THEN [op |-> "createUser"]
            ELSE IF method = "PUT" /\ Len(urlParts) = 3
                 THEN [op |-> "updateUser", userId |-> urlParts[3]]
            ELSE IF method = "DELETE" /\ Len(urlParts) = 3
                 THEN [op |-> "deleteUser", userId |-> urlParts[3]]
            ELSE [op |-> "endpointNotFound"]
       ELSE [op |-> "resourceNotFound"]

AwaitsBody(route) == route.op \in {"createUser", "updateUser"}

\* the synchronous part of requestListener for a route that reads no body
Dispatch(list, route) ==
    CASE route.op = "getAllUsers" -> getAllUsers(list)
      [] route.op = "getUserById" -> getUserById(list, route.userId)
      [] route.op = "deleteUser" -> deleteUser(list, route.userId)
      [] route.op = "endpointNotFound" ->
            Outcome(list, sendResponse(404, Message("Endpoint not found.")))
      [] OTHER ->
            Outcome(list, sendResponse(404, Message("Resource not found.")))

\* the 'end' handler of parseRequestBody: JSON.parse, then the callback; an
\* exception of either is caught and answered 400. text is the body received:
\* [syntax |-> "bad"] or [syntax |-> "ok", value |-> the JSON value it denotes]
parseRequestBody(list, route, text, uuid) ==
    IF text.syntax # "ok"
    THEN Outcome(list, sendResponse(400, Message("Invalid JSON format.")))
    ELSE IF route.op = "createUser"
         THEN IF DestructureThrows(text.value)
              THEN Outcome(list, sendResponse(400, Message("Invalid JSON format.")))
              ELSE createUser(list, text.value, uuid)
         ELSE updateUser(list, route.userId, text.value)

\* ------------------------------------------------------------------- state
VARIABLES
    numCPUs,      \* cpus().length
    workers,      \* the keys of cluster.workers: the ids of the live workers
    listening,    \* the workers whose server listens and takes messages
    users,        \* users[p]: the `users` array of process p (0: the primary)
    pending,      \* requests whose body is still arriving, oldest first
    nextId,       \* uuidv4() calls made so far
    inbox,        \* inbox[w]: messages sent to worker w and not yet received
    conns,        \* connections accepted by the load balancer, oldest first
    last          \* the last request a process answered, with the response

vars == <<numCPUs, workers, listening, users, pending, nextId, inbox, conns, last>>

Primary == 0
\* cluster.fork() numbers the workers 1, 2, ...
WorkerIds == 1..MaxCPUs
Procs == {Primary} \cup WorkerIds

\* ------------------------------------------------------------- the clients
NoBody == [syntax |-> "none"]
NoEvent == [proc |-> Primary, method |-> "", url |-> <<>>, body |-> NoBody,
            resp |-> [status |-> 0]]

Methods == {"GET", "POST", "PUT", "DELETE"}
AllIds == {BadId} \cup {GenUUIDs[i] : i \in DOMAIN GenUUIDs}
\* the ids a client can put in a url or a body: made up, or returned by uuidv4
KnownIds == {BadId} \cup {GenUUIDs[i] : i \in 1..nextId}
\* req.url.split('/') of the urls clients ask for
CollectionUrl == <<"", "api", "users">>
ItemUrl(id) == <<"", "api", "users", id>>
Urls == {CollectionUrl} \cup {ItemUrl(id) : id \in AllIds}
\* the id a url names, if it names one
UrlId(url) == IF Len(url) >= 4 THEN url[4] ELSE ""
UrlKnown(url) == UrlId(url) \in KnownIds \cup {""}

\* the object whose properties are the given values that are not undefined
MkObj(id, name, age, hobbies) ==
    LET all == [id |-> id, name |-> name, age |-> age, hobbies |-> hobbies]
    IN Obj([k \in {f \in DOMAIN all : all[f] # Undefined} |-> all[k]])
Json(value) == [syntax |-> "ok", value |-> value]

Reading == Arr(<<Str("reading"), Str("sports")>>)
\* the bodies of the test suite: the user it creates and the update it sends
JohnDoe == MkObj(Undefined, Str("John Doe"), Num(30), Reading)
JaneDoe == MkObj(Undefined, Str("Jane Doe"), Num(31), Undefined)

\* Bodies of valid field values: the two above, a change of hobbies alone, and
\* bodies that carry an id
BodyTexts ==
    {Json(JohnDoe), Json(JaneDoe), Json(MkObj(Undefined, Undefined, Undefined, Arr(<<>>)))}
    \cup {Json(MkObj(Str(id), Undefined, Undefined, Undefined)) : id \in AllIds}
    \cup {Json(MkObj(Str(id), Str("John Doe"), Num(30), Reading)) : id \in AllIds}

\* Bodies for the field rules: each field wrong in turn, in a whole user and
\* alone, beside a valid user, null and a text that is no JSON
InvalidValues ==
    {MkObj(Undefined, Str("  "), Num(30), Reading),
     MkObj(Undefined, Num(30), Num(30), Reading),
     MkObj(Undefined, Str("John Doe"), Str("30"), Reading),
     MkObj(Undefined, Str("John Doe"), Num(30), Arr(<<Str("x"), Num(5)>>)),
     MkObj(Undefined, Str("John Doe"), Num(30), Str("reading")),
     MkObj(Undefined, Str("John Doe"), Num(30), Undefined),
     MkObj(Undefined, Str("  "), Undefined, Undefined),
     MkObj(Undefined, Undefined, Str("30"), Undefined),
     MkObj(Undefined, Undefined, Undefined, Arr(<<Str("x"), Num(5)>>))}
ValidationBodyTexts ==
    {[syntax |-> "bad"], Json(JNull), Json(JohnDoe)} \cup {Json(v) : v \in InvalidValues}

BodyKnown(text) ==
    IF text.syntax # "ok" THEN TRUE
    ELSE IF Get(text.value, "id") = Undefined THEN TRUE
    ELSE Get(text.value, "id").v \in KnownIds

\* ----------------------------------------------------------------- startup
\* The state the bootstrap of the primary leaves: numCPUs - 1 workers forked,
\* none of them listening yet, and the load balancer created.
InitWith(cpus) ==
    /\ numCPUs \in cpus
    /\ workers = 1..(numCPUs - 1)
    /\ listening = {}
    /\ users = [p \in Procs |-> <<>>]
    /\ pending = <<>>
    /\ nextId = 0
    /\ inbox = [w \in WorkerIds |-> <<>>]
    /\ conns = <<>>
    /\ last = NoEvent

Init == InitWith(1..MaxCPUs)
InitDispatch == InitWith(1..(MaxCPUs + 1))

\* the else branch of the bootstrap, run by a forked worker
WorkerStart(w) ==
    /\ w \in workers \ listening
    /\ listening' = listening \cup {w}
    /\ UNCHANGED <<numCPUs, workers, users, pending, nextId, inbox, conns, last>>

\* a worker process dies: cluster drops it from cluster.workers, and its
\* array, its open requests and its unread messages are gone with it
WorkerExit(w) ==
    /\ w \in workers
    /\ workers' = workers \ {w}
    /\ listening' = listening \ {w}
    /\ users' = [users EXCEPT ![w] = <<>>]
    /\ pending' = SelectSeq(pending, LAMBDA r : r.proc # w)
    /\ inbox' = [inbox EXCEPT ![w] = <<>>]
    /\ last' = IF last.proc = w THEN NoEvent ELSE last
    /\ UNCHANGED <<numCPUs, nextId, conns>>

\* ------------------------------------------------------- the load balancer
\* cluster.worker?.id: undefined in the primary
ClusterWorkerId(p) == IF p = Primary THEN Undefined ELSE Num(p)
\* x || 0
OrZero(x) == IF x.t \in {"undefined", "null", "nan"} \/ x = Num(0) THEN Num(0) ELSE x
\* a % b of two numbers that are not negative: NaN when b is 0
JsMod(a, b) == IF a.t = "nan" \/ b.t = "nan" \/ b.v = 0 THEN NaN ELSE Num(a.v % b.v)
\* cluster.workers ? Object.keys(cluster.workers).length : 1 (cluster.workers
\* is an object in the primary and undefined in a worker)
WorkerCount(p, ws) == IF p = Primary THEN Num(Cardinality(ws)) ELSE Num(1)
\* the workerId the request handler of the load balancer computes in process p
SelectWorkerId(p, ws) == JsMod(OrZero(ClusterWorkerId(p)), WorkerCount(p, ws))
\* cluster.workers[workerId]: the worker with that id, or undefined
LookupWorker(ws, workerId) ==
    IF workerId.t = "number" /\ workerId.v \in ws THEN workerId ELSE Undefined

\* the request handler of the load balancer: worker?.send({ req, res }) and
\* nothing else; no response is written here
LoadBalancerRequest(method, url) ==
    /\ Len(conns) < MaxConns
    /\ UrlKnown(url)
    /\ LET workerId == SelectWorkerId(Primary, workers)
           worker == LookupWorker(workers, workerId)
           conn == Len(conns) + 1
       IN /\ conns' = Append(conns, [method |-> method, url |-> url,
                                     workers |-> workers, workerId |-> workerId,
                                     worker |-> worker,
                                     resp |-> [status |-> 0]])
          /\ inbox' = IF worker = Undefined THEN inbox
                      ELSE [inbox EXCEPT ![worker.v] =
                              Append(@, [method |-> method, url |-> url, conn |-> conn])]
    /\ UNCHANGED <<numCPUs, workers, listening, users, pending, nextId, last>>

\* ------------------------------------------------------------- the workers
\* where a response goes: to the connection of the load balancer (res of a
\* message) or to the worker's own client (conn 0)
Respond(conn, resp) ==
    IF conn = 0 THEN conns ELSE [conns EXCEPT ![conn].resp = resp]

\* the body of a request that is answered while its body is still arriving
Arriving == [syntax |-> "arriving"]

\* requestListener in worker w, for a request of the worker's own server or
\* for the { req, res } of a message: a route without body is answered at
\* once, createUser and updateUser wait for the body. arriving: the request
\* carries a body that has not arrived in full when the request event fires
\* (a POST or PUT always waits for the end event). At most maxPending
\* requests have their body still arriving.
RequestEvent(w, method, url, arriving, maxPending) ==
    /\ w \in listening
    /\ UrlKnown(url)
    /\ \E src \in {"http"} \cup (IF inbox[w] # <<>> THEN {"message"} ELSE {}) :
        LET m == IF src = "message" THEN Head(inbox[w])
                 ELSE [method |-> method, url |-> url, conn |-> 0]
            route == Route(m.method, m.url)
            open(answered) == [proc |-> w, method |-> m.method, url |-> m.url,
                               conn |-> m.conn, answered |-> answered]
        IN /\ inbox' = IF src = "message" THEN [inbox EXCEPT ![w] = Tail(@)] ELSE inbox
           /\ IF AwaitsBody(route)
              THEN /\ Len(pending) < maxPending
                   /\ pending' = Append(pending, open(FALSE))
                   /\ UNCHANGED <<users, last, conns>>
              ELSE LET out == Dispatch(users[w], route)
                   IN /\ arriving => Len(pending) < maxPending
                      /\ users' = [users EXCEPT ![w] = out.users]
                      /\ last' = [proc |-> w, method |-> m.method, url |-> m.url,
                                  body |-> IF arriving THEN Arriving ELSE NoBody,
                                  resp |-> out.resp]
                      /\ conns' = Respond(m.conn, out.resp)
                      /\ pending' = IF arriving THEN Append(pending, open(TRUE))
                                    ELSE pending
    /\ UNCHANGED <<numCPUs, workers, listening, nextId>>

\* a request whose body, if it has one, arrives with its head
WorkerRequest(w, method, url) == RequestEvent(w, method, url, FALSE, MaxPending)

\* the body that makes createUser call uuidv4()
Creates(route, text) ==
    /\ route.op = "createUser"
    /\ text.syntax = "ok"
    /\ ~DestructureThrows(text.value)
    /\ validateUserData(text.value)

\* one callback variable shared by the requests in place of the closure of
\* each: the end event of any request runs the callback registered last
EndEvent_SharedCallback(i, text, maxIds) ==
    /\ i \in DOMAIN pending
    /\ BodyKnown(text)
    /\ LET r == pending[Len(pending)]
           route == Route(r.method, r.url)
           out == parseRequestBody(users[r.proc], route, text, GenUUIDs[nextId + 1])
       IN IF pending[i].answered \/ r.answered
          THEN UNCHANGED <<nextId, users, last, conns>>
          ELSE /\ Creates(route, text) => nextId < maxIds
               /\ nextId' = IF Creates(route, text) THEN nextId + 1 ELSE nextId
               /\ users' = [users EXCEPT ![r.proc] = out.users]
               /\ last' = [proc |-> r.proc, method |-> r.method, url |-> r.url,
                           body |-> text, resp |-> out.resp]
               /\ conns' = Respond(r.conn, out.resp)
    /\ pending' = Splice(pending, i)
    /\ UNCHANGED <<numCPUs, workers, listening, inbox>>

\* the 'end' event of the i-th open request: its body has arrived as text.
\* The listeners of parseRequestBody run for a request that waits for its
\* body; the body of a request answered before is read by nobody. uuidv4() is
\* called at most maxIds times.
EndEvent(i, text, maxIds) ==
    /\ i \in DOMAIN pending
    /\ BodyKnown(text)
    /\ LET r == pending[i]
           route == Route(r.method, r.url)
           out == parseRequestBody(users[r.proc], route, text, GenUUIDs[nextId + 1])
       IN IF r.answered
          THEN UNCHANGED <<nextId, users, last, conns>>
          ELSE /\ Creates(route, text) => nextId < maxIds
               /\ nextId' = IF Creates(route, text) THEN nextId + 1 ELSE nextId
               /\ users' = [users EXCEPT ![r.proc] = out.users]
               /\ last' = [proc |-> r.proc, method |-> r.method, url |-> r.url,
                           body |-> text, resp |-> out.resp]
               /\ conns' = Respond(r.conn, out.resp)
    /\ pending' = Splice(pending, i)
    /\ UNCHANGED <<numCPUs, workers, listening, inbox>>

WorkerBodyEnd(i, text) == EndEvent(i, text, MaxIds)

\* ------------------------------------------------------ the specifications
\* The workers, asked on their own ports, under bodies of valid field values.
Next ==
    \/ \E w \in WorkerIds : WorkerStart(w)
    \/ \E w \in WorkerIds : WorkerExit(w)
    \/ \E w \in WorkerIds, method \in Methods, url \in Urls :
          WorkerRequest(w, method, url)
    \/ \E i \in 1..MaxPending, text \in BodyTexts : WorkerBodyEnd(i, text)

Spec == Init /\ [][Next]_vars

\* The workers, asked on their own ports, under bodies that break the field
\* rules.
NextValidation ==
    \/ \E w \in WorkerIds : WorkerStart(w)
    \/ \E w \in WorkerIds : WorkerExit(w)
    \/ \E w \in WorkerIds, method \in Methods, url \in Urls :
          WorkerRequest(w, method, url)
    \/ \E i \in 1..MaxPending, text \in ValidationBodyTexts : WorkerBodyEnd(i, text)

ValidationSpec == Init /\ [][NextValidation]_vars

\* The dispatch: one more worker may be forked, and the clients send the
\* requests of the test suite to the load balancer and to the workers.
DispatchMethods == {"GET", "POST"}
NextDispatch ==
    \/ \E w \in WorkerIds : WorkerStart(w)
    \/ \E w \in WorkerIds : WorkerExit(w)
    \/ \E method \in DispatchMethods, url \in Urls : LoadBalancerRequest(method, url)
    \/ \E w \in WorkerIds, method \in DispatchMethods, url \in Urls :
          WorkerRequest(w, method, url)
    \/ \E i \in 1..MaxPending : WorkerBodyEnd(i, Json(JohnDoe))

DispatchSpec == InitDispatch /\ [][NextDispatch]_vars

\* The routing: the workers, asked on their own ports with one more method
\* and with urls off the two routes: "/", "/api", "/api/users/", "/api/items",
\* "/users/api", "/api/users/{id}/posts", "/api/items/{id}".
RoutingMethods == Methods \cup {"PATCH"}
RoutingIds == {BadId, GenUUIDs[1]}
RoutingUrls ==
    {<<"", "">>, <<"", "api">>, CollectionUrl, CollectionUrl \o <<"">>,
     <<"", "api", "items">>, <<"", "users", "api">>}
    \cup {ItemUrl(id) : id \in RoutingIds}
    \cup {ItemUrl(id) \o <<"posts">> : id \in RoutingIds}
    \cup {<<"", "api", "items", id>> : id \in RoutingIds}
NextRouting ==
    \/ \E w \in WorkerIds : WorkerStart(w)
    \/ \E w \in WorkerIds : WorkerExit(w)
    \/ \E w \in WorkerIds, method \in RoutingMethods, url \in RoutingUrls :
          WorkerRequest(w, method, url)
    \/ \E i \in 1..MaxPending, text \in {Json(JohnDoe), Json(JaneDoe)} :
          WorkerBodyEnd(i, text)

RoutingSpec == Init /\ [][NextRouting]_vars

\* The order of the events: the workers, asked on their own ports by clients
\* whose requests overlap and may carry, whatever the method, a body that
\* arrives after the head.
OverlappingRequest(w, method, url, arriving) ==
    RequestEvent(w, method, url, arriving, MaxOverlap)
NextOrdering ==
    \/ \E w \in WorkerIds : WorkerStart(w)
    \/ \E w \in WorkerIds : WorkerExit(w)
    \/ \E w \in WorkerIds, method \in Methods, url \in Urls, arriving \in BOOLEAN :
          OverlappingRequest(w, method, url, arriving)
    \/ \E i \in 1..MaxOverlap, text \in {Json(JohnDoe), Json(JaneDoe)} :
          WorkerBodyEnd(i, text)

OrderingSpec == Init /\ [][NextOrdering]_vars

\* The arrays: the workers, asked on their own ports, with one more user to
\* create, the bodies of the test suite and a body that carries the id the
\* second user got.
StoreBodyTexts ==
    {Json(JohnDoe), Json(JaneDoe)}
    \cup {Json(MkObj(Str(GenUUIDs[2]), Undefined, Undefined, Undefined))}
StoreBodyEnd(i, text) == EndEvent(i, text, MaxStoreIds)
NextStore ==
    \/ \E w \in WorkerIds : WorkerStart(w)
    \/ \E w \in WorkerIds : WorkerExit(w)
    \/ \E w \in WorkerIds, method \in Methods, url \in Urls :
          WorkerRequest(w, method, url)
    \/ \E i \in 1..MaxPending, text \in StoreBodyTexts : StoreBodyEnd(i, text)

StoreSpec == Init /\ [][NextStore]_vars

\* ------------------------------------------------------------------ claims
\* A connection of the load balancer whose request is on its way to a
\* response: in a worker's inbox, or waiting for its body in a process.
InFlight(c) ==
    \/ \E w \in WorkerIds : \E k \in DOMAIN inbox[w] : inbox[w][k].conn = c
    \/ \E k \in DOMAIN pending : pending[k].conn = c
Answered(c) == conns[c].resp.status # 0

(* C1: for every request the load balancer accepted while at least one worker
   was alive, the worker its handler selected is one of the live workers (and
   the handler sent the request to it). *)
C1_SelectedWorkerIsLive ==
    \A c \in DOMAIN conns :
        conns[c].workers # {} =>
            /\ conns[c].worker # Undefined
            /\ conns[c].workerId.t = "number"
            /\ conns[c].workerId.v \in conns[c].workers

(* C2: a request the load balancer accepted while workers were alive, none of
   which has died since, has its response or is still on its way to one (it
   is in a worker's inbox or a worker waits for its body): only then can the
   response still come. *)
C2_AcceptedIsAnsweredOrInFlight ==
    \A c \in DOMAIN conns :
        (conns[c].workers # {} /\ conns[c].workers \subseteq workers) =>
            (Answered(c) \/ InFlight(c))

(* C3: a request the load balancer accepted while there was no worker is
   served by the primary itself: it has its response, or the primary waits for
   its body. *)
C3_NoWorkerServedDirectly ==
    \A c \in DOMAIN conns :
        conns[c].workers = {} =>
            \/ Answered(c)
            \/ \E k \in DOMAIN pending :
                  pending[k].conn = c /\ pending[k].proc = Primary

(* C4: towards a client of the load balancer the workers are one store
   (stated here for the requests accepted while a worker was alive): a
   POST /api/users (of a valid user) that is no longer on its way was
   answered 201, and a later GET /api/users/{id} with the id of that answer
   that is no longer on its way was answered 200 with the same record. *)
C4_LoadBalancerIsOneStore ==
    \A c \in DOMAIN conns :
        (conns[c].workers # {} /\ ~InFlight(c)) =>
            /\ (conns[c].method = "POST" /\ conns[c].url = CollectionUrl)
                  => conns[c].resp.status = 201
            /\ \A b \in 1..(c - 1) :
                  (/\ conns[b].resp.status = 201
                   /\ conns[c].method = "GET"
                   /\ conns[c].url = ItemUrl(Get(conns[b].resp.body, "id").v))
                  => conns[c].resp = [status |-> 200, body |-> conns[b].resp.body]

\* the step in which a worker answered the request whose body had arrived
BodyEndStep ==
    /\ workers' = workers
    /\ \E i \in DOMAIN pending :
          ~pending[i].answered /\ pending' = Splice(pending, i)
PostSucceeded == BodyEndStep /\ last'.method = "POST" /\ last'.resp.status = 201
PutSucceeded == BodyEndStep /\ last'.method = "PUT" /\ last'.resp.status = 200
\* the ids of the records of an array
IdsOf(list) == {Get(list[k], "id") : k \in DOMAIN list}

(* C5: right after a POST was answered 201 (nothing else answered since), a
   GET /api/users/{id} with the id of the answer is answered 200 with the
   record the POST returned: same id, name, age and hobbies. *)
C5_GetAfterPost ==
    (last.method = "POST" /\ last.resp.status = 201) =>
        getUserById(users[last.proc], Get(last.resp.body, "id").v).resp
            = [status |-> 200, body |-> last.resp.body]
C5_Witness ==
    /\ last.method = "POST" /\ last.resp.status = 201
    /\ Len(users[last.proc]) = 2
    /\ Get(last.resp.body, "name") = Str("John Doe")
    /\ Get(last.resp.body, "hobbies") = Reading

(* C6: a PUT answered 200 sets the fields its body carries to the values of
   the body in the record the url addresses, leaves the other fields of that
   record as they were, and leaves every other record of every array as it
   was. *)
C6_PutMerges ==
    [][PutSucceeded =>
        LET p == last'.proc
            i == FindIndex(users[p], UrlId(last'.url))
            body == Props(last'.body.value)
            old == Props(users[p][i])
            new == Props(users'[p][i])
        IN /\ i # 0
           /\ DOMAIN users'[p] = DOMAIN users[p]
           /\ DOMAIN new = (DOMAIN old) \cup (DOMAIN body)
           /\ \A f \in DOMAIN body : new[f] = body[f]
           /\ \A f \in (DOMAIN old) \ (DOMAIN body) : new[f] = old[f]
           /\ \A k \in DOMAIN users[p] : k # i => users'[p][k] = users[p][k]
           /\ \A q \in Procs \ {p} : users'[q] = users[q]
           /\ last'.resp.body = users'[p][i]]_vars
C6_Witness ==
    /\ last.method = "PUT" /\ last.resp.status = 200
    /\ last.body = Json(JaneDoe)
    /\ Len(users[last.proc]) = 2
    /\ users[last.proc][2] = MkObj(Str(UrlId(last.url)), Str("Jane Doe"), Num(31), Reading)
    /\ Get(users[last.proc][1], "name") = Str("John Doe")

(* C7: the id of a stored user never changes: after a PUT answered 200 the
   record the url addressed still has the id of the url, and an id leaves an
   array only by a DELETE answered 204 (or with the process). *)
C7_IdImmutable ==
    [][/\ PutSucceeded =>
            LET p == last'.proc
                i == FindIndex(users[p], UrlId(last'.url))
            IN Get(users'[p][i], "id") = Str(UrlId(last'.url))
       /\ \A p \in Procs :
            ~(IdsOf(users[p]) \subseteq IdsOf(users'[p])) =>
                \/ workers' # workers
                \/ last'.method = "DELETE" /\ last'.resp.status = 204]_vars

(* C8: no two records of one array have the same id. *)
C8_UniqueIds ==
    \A p \in Procs : \A i, j \in DOMAIN users[p] :
        i # j => Get(users[p][i], "id") # Get(users[p][j], "id")

(* C9: a POST answered 201 returns a record whose id is a well-formed UUID,
   is the value uuidv4() returned for this request (not the id of the body),
   and is the id of no record that was in the array before. *)
C9_CreatedIdFresh ==
    [][PostSucceeded =>
        LET p == last'.proc
            id == Get(last'.resp.body, "id")
        IN /\ TypeOf(id) = "string"
           /\ isValidUUID(id.v)
           /\ nextId' = nextId + 1
           /\ id = Str(GenUUIDs[nextId'])
           /\ id # Get(last'.body.value, "id")
           /\ id \notin IdsOf(users[p])
           /\ Get(users'[p][Len(users'[p])], "id") = id]_vars
C9_Witness ==
    /\ last.method = "POST" /\ last.resp.status = 201
    /\ Get(last.body.value, "id") = Str(GenUUIDs[1])
    /\ Len(users[last.proc]) = 2
    /\ Get(last.resp.body, "id") = Str(GenUUIDs[2])

\* a value that has a field which breaks the rule of that field
BreaksRule(body) ==
    \/ ("name" \in DOMAIN Props(body)
          /\ (TypeOf(Get(body, "name")) # "string" \/ Trim(Get(body, "name").v) = ""))
    \/ ("age" \in DOMAIN Props(body)
          /\ (TypeOf(Get(body, "age")) # "number" \/ NumberIsNaN(Get(body, "age"))))
    \/ ("hobbies" \in DOMAIN Props(body)
          /\ (~IsArray(Get(body, "hobbies"))
              \/ \E i \in DOMAIN Get(body, "hobbies").v :
                    TypeOf(Get(body, "hobbies").v[i]) # "string"))
(* C10: every record of every array keeps the field rules of a user (a name
   that is a string and not blank, an age that is a number and not NaN,
   hobbies that are an array of strings), and a PUT whose body carries a value
   that breaks the rule of its field is answered 400. *)
C10_RecordsKeepFieldRules ==
    /\ \A p \in Procs : \A k \in DOMAIN users[p] : ~BreaksRule(users[p][k])
    /\ (last.method = "PUT" /\ last.body.syntax = "ok" /\ BreaksRule(last.body.value))
          => last.resp.status = 400

\* the step in which a process answered a request
AnswerStep ==
    /\ workers' = workers
    /\ listening' = listening
    /\ (last' # last \/ users' # users \/ BodyEndStep)
\* the request just answered names, where the id stands, a string that is no
\* UUID
BadIdAnswer(e) ==
    /\ e.method \in {"GET", "PUT", "DELETE"}
    /\ Len(FilterBoolean(e.url)) = 3
    /\ ~isValidUUID(UrlId(e.url))

(* C11: a GET, PUT or DELETE on /api/users/{id} whose id is no UUID is
   answered 400 with the same response whatever the array holds (no lookup),
   and leaves every array as it was, also when a record has that string as
   its id. *)
C11_BadIdRejected ==
    [][(AnswerStep /\ BadIdAnswer(last')) =>
        /\ last'.resp.status = 400
        /\ users' = users
        /\ last'.resp \in
              {sendResponse(400, Message("Invalid userId format")),
               sendResponse(400, Message("Invalid userId format.")),
               sendResponse(400, Message("Invalid JSON format."))}]_vars
C11_Witness ==
    /\ last.method = "DELETE" /\ UrlId(last.url) = BadId
    /\ last.resp.status = 400
    /\ \E k \in DOMAIN users[last.proc] :
          Get(users[last.proc][k], "id") = Str(BadId)

(* C12: right after a DELETE was answered 204 (nothing else answered since),
   no record of that array has the id of the url, and a GET on that id is
   answered 404 with the message `User with id {id} not found.` *)
C12_GetAfterDelete ==
    (last.method = "DELETE" /\ last.resp.status = 204) =>
        /\ Str(UrlId(last.url)) \notin IdsOf(users[last.proc])
        /\ getUserById(users[last.proc], UrlId(last.url)).resp
              = sendResponse(404, NotFoundMessage(UrlId(last.url)))

\* a body that is not a user to create: a field is missing or breaks its rule
BreaksCreateRule(body) ==
    \/ ~({"name", "age", "hobbies"} \subseteq DOMAIN Props(body))
    \/ BreaksRule(body)
(* C13: a POST /api/users whose body (a JSON value) lacks a name that is a
   non-blank string, an age that is a number or hobbies that are an array of
   strings is answered 400, and no array grows and no id is drawn. *)
C13_InvalidCreateRejected ==
    [][(/\ BodyEndStep
        /\ last'.method = "POST"
        /\ last'.body.syntax = "ok"
        /\ BreaksCreateRule(last'.body.value)) =>
            /\ last'.resp.status = 400
            /\ users' = users
            /\ nextId' = nextId]_vars
C13_Witness ==
    /\ last.method = "POST" /\ last.resp.status = 400
    /\ last.body = Json(MkObj(Undefined, Str("John Doe"), Num(30),
                              Arr(<<Str("x"), Num(5)>>)))
    /\ Len(users[last.proc]) = 1

(* C14: a POST /api/users whose body carries an `id` property is answered 400
   and no array changes, also when its name, age and hobbies are valid. *)
C14_CallerIdRejected ==
    [][(/\ BodyEndStep
        /\ last'.method = "POST"
        /\ last'.body.syntax = "ok"
        /\ Get(last'.body.value, "id") # Undefined) =>
            /\ last'.resp.status = 400
            /\ users' = users]_vars

\* the fields of a user that a body lacks or gives a value that breaks the
\* rule of the field
BrokenFields(body) ==
    {f \in {"name", "age", "hobbies"} :
        \/ f \notin DOMAIN Props(body)
        \/ BreaksRule(Obj([g \in {f} |-> Get(body, g)]))}
(* C15: the 400 that answers a POST whose body fails the validation names the
   field that failed: it differs from the answer createUser gives to a body
   whose failing fields are other fields. *)
C15_MessageNamesField ==
    (/\ last.method = "POST" /\ last.resp.status = 400
     /\ last.body.syntax = "ok" /\ BrokenFields(last.body.value) # {}) =>
        \A v \in InvalidValues :
            (BrokenFields(v) # {}
               /\ BrokenFields(v) \cap BrokenFields(last.body.value) = {})
            => createUser(users[last.proc], v, GenUUIDs[1]).resp # last.resp

(* C16: a request whose handling raises an exception (the create handler
   destructuring a body that is valid JSON but no object: null) is answered
   500 with the generic message, and the worker that answered is alive. *)
C16_ExceptionAnswered500 ==
    (/\ last.method \in {"POST", "PUT"}
     /\ last.body.syntax = "ok"
     /\ Route(last.method, last.url).op = "createUser"
     /\ DestructureThrows(last.body.value)) =>
        /\ last.resp = sendResponse(500,
              Message("An unexpected error occurred. Please try again later."))
        /\ last.proc \in listening

\* the routing table as stated: what a method and the segments of a path
\* stand for
TableOp(method, segs) ==
    IF Len(segs) >= 2 /\ segs[1] = "api" /\ segs[2] = "users"
    THEN CASE method = "GET" /\ Len(segs) = 2 -> "list"
           [] method = "GET" /\ Len(segs) = 3 -> "get"
           [] method = "POST" /\ Len(segs) = 2 -> "create"
           [] method = "PUT" /\ Len(segs) = 3 -> "update"
           [] method = "DELETE" /\ Len(segs) = 3 -> "delete"
           [] OTHER -> "Endpoint not found."
    ELSE "Resource not found."
\* the answer just given is the one the table asks for, computed on the array
\* as it was
AnswerByTable ==
    LET e == last'
        p == e.proc
        segs == FilterBoolean(e.url)
        op == TableOp(e.method, segs)
    IN CASE op = "list" ->
              e.resp = sendResponse(200, Arr(users[p])) /\ users' = users
         [] op = "get" ->
              e.resp = getUserById(users[p], segs[3]).resp /\ users' = users
         [] op = "delete" ->
              /\ e.resp = deleteUser(users[p], segs[3]).resp
              /\ users' = [users EXCEPT ![p] = deleteUser(users[p], segs[3]).users]
         [] op = "create" ->
              /\ BodyEndStep
              /\ e.body.syntax = "ok"
              /\ e.resp = createUser(users[p], e.body.value, GenUUIDs[nextId + 1]).resp
              /\ users' = [users EXCEPT ![p] =
                    createUser(users[p], e.body.value, GenUUIDs[nextId + 1]).users]
         [] op = "update" ->
              /\ BodyEndStep
              /\ e.body.syntax = "ok"
              /\ e.resp = updateUser(users[p], segs[3], e.body.value).resp
              /\ users' = [users EXCEPT ![p] =
                    updateUser(users[p], segs[3], e.body.value).users]
         [] OTHER ->
              e.resp = sendResponse(404, Message(op)) /\ users' = users
(* C17: every answer is the one of the routing table: under /api/users a GET
   of 2 segments lists, a GET of 3 gets by id, a POST of 2 creates, a PUT of 3
   updates, a DELETE of 3 deletes; any other method or number of segments
   there is answered 404 'Endpoint not found.' and a path elsewhere 404
   'Resource not found.', both without a change of any array; and only a
   create or an update waits for a body. *)
C17_RoutingTable ==
    [][/\ AnswerStep => AnswerByTable
       /\ Len(pending') > Len(pending) =>
            LET r == pending'[Len(pending')]
            IN TableOp(r.method, FilterBoolean(r.url)) \in {"create", "update"}]_vars
C17_Witness ==
    /\ last.method = "PATCH" /\ last.url = ItemUrl(GenUUIDs[1])
    /\ last.resp = sendResponse(404, Message("Endpoint not found."))
    /\ Str(GenUUIDs[1]) \in IdsOf(users[last.proc])

\* a request that stands for a create or an update by the routing table
ReadsBody(r) == TableOp(r.method, FilterBoolean(r.url)) \in {"create", "update"}
\* the event `last` is the answer to the request r
AnswerTo(e, r) == e.proc = r.proc /\ e.method = r.method /\ e.url = r.url

(* C18: of two requests of one worker the one whose body finishes arriving
   first is handled first: when the request handled last has its body
   complete, no request of that worker that was handled before it has its
   body still arriving. *)
C18_HandledInBodyOrder ==
    \A k \in DOMAIN pending :
        (pending[k].answered /\ pending[k].proc = last.proc /\ last.method # "")
            => last.body = Arriving

(* C18, amended: a request that is a create or an update is handled at the end
   event of its own body, with that body, and not before; every other request
   is handled when it arrives, whether the body it carries has arrived or
   not; so requests whose body is complete when they are handled (creates,
   updates and body-less requests) are handled in the order their bodies
   finish arriving. *)
C18_HandledAtEndOrArrival ==
    [][workers' = workers =>
        /\ \/ pending' = pending
           \/ Len(pending') = Len(pending) + 1
                /\ pending = SubSeq(pending', 1, Len(pending))
           \/ \E i \in DOMAIN pending : pending' = Splice(pending, i)
        /\ Len(pending') > Len(pending) =>
              LET r == pending'[Len(pending')]
              IN IF ReadsBody(r)
                 THEN ~r.answered /\ UNCHANGED <<users, last>>
                 ELSE r.answered /\ AnswerTo(last', r) /\ last'.body = Arriving
        /\ \A i \in DOMAIN pending :
              (pending' = Splice(pending, i) /\ ~pending[i].answered) =>
                  AnswerTo(last', pending[i]) /\ last'.body.syntax \in {"ok", "bad"}
        /\ \A i \in DOMAIN pending :
              (pending' = Splice(pending, i) /\ pending[i].answered) =>
                  UNCHANGED <<users, last>>
        /\ (AnswerStep /\ ReadsBody(last')) => BodyEndStep
        /\ (AnswerStep /\ ~ReadsBody(last')) => Len(pending') >= Len(pending)]_vars
C18_Witness ==
    /\ Len(pending) = 2
    /\ pending[1].method = "POST" /\ ~pending[1].answered
    /\ pending[2].method = "GET" /\ pending[2].answered
    /\ pending[2].proc = pending[1].proc
    /\ AnswerTo(last, pending[2])
    /\ last.body = Arriving /\ last.resp.status = 200
    /\ Len(users[last.proc]) = 1

(* C19: a POST or PUT whose body is no JSON text is answered 400 'Invalid JSON
   format.' and no array changes; and no body that is a JSON text is answered
   with that response. *)
C19_InvalidJsonOnlyForMalformed ==
    [][BodyEndStep =>
        /\ last'.body.syntax = "bad" =>
              /\ last'.resp = sendResponse(400, Message("Invalid JSON format."))
              /\ users' = users
        /\ last'.resp = sendResponse(400, Message("Invalid JSON format.")) =>
              last'.body.syntax = "bad"]_vars

\* new is old without its i-th element, the others in the order they had
RemovedAt(old, new, i) ==
    /\ i \in DOMAIN old
    /\ Len(new) = Len(old) - 1
    /\ \A k \in DOMAIN new : new[k] = IF k < i THEN old[k] ELSE old[k + 1]
\* what a step may do to the array of process p
StoreStep(p) ==
    LET old == users[p]
        new == users'[p]
        e == last'
        mine == AnswerStep /\ e.proc = p
    IN /\ (mine /\ e.method = "GET" /\ e.url = CollectionUrl) =>
              e.resp = [status |-> 200, body |-> Arr(old)] /\ new = old
       /\ (mine /\ e.method = "POST" /\ e.resp.status = 201) =>
              new = old \o <<e.resp.body>>
       /\ (mine /\ e.method = "PUT" /\ e.resp.status = 200) =>
              \E i \in DOMAIN old :
                  /\ Get(old[i], "id") = Str(UrlId(e.url))
                  /\ Len(new) = Len(old)
                  /\ new[i] = e.resp.body
                  /\ \A k \in DOMAIN old : k # i => new[k] = old[k]
       /\ (mine /\ e.method = "DELETE" /\ e.resp.status = 204) =>
              \E i \in DOMAIN old :
                  /\ Get(old[i], "id") = Str(UrlId(e.url))
                  /\ RemovedAt(old, new, i)
       /\ new # old =>
              /\ mine
              /\ \/ e.method = "POST" /\ e.resp.status = 201
                 \/ e.method = "PUT" /\ e.resp.status = 200
                 \/ e.method = "DELETE" /\ e.resp.status = 204
(* C20: the array of every process is empty at the start and changes only by
   an answered request of that process (or ends with the process): a POST
   answered 201 puts the new record after all the others, a PUT answered 200
   changes one record that has the id of the url and leaves it at its place,
   a DELETE answered 204 takes out one record that has the id of the url and
   leaves the others in the order they had, and GET /api/users returns the
   array in its order. *)
C20_StoreKeepsOrder ==
    /\ \A p \in Procs : users[p] = <<>>
    /\ [][workers' = workers => \A p \in Procs : StoreStep(p)]_vars
C20_Witness ==
    /\ last.method = "DELETE" /\ last.resp.status = 204
    /\ last.url = ItemUrl(GenUUIDs[1])
    /\ Len(users[last.proc]) = 2
    /\ Get(users[last.proc][1], "id") = Str(GenUUIDs[2])
    /\ Get(users[last.proc][1], "name") = Str("Jane Doe")
    /\ Get(users[last.proc][2], "id") = Str(GenUUIDs[3])
    /\ Get(users[last.proc][2], "name") = Str("John Doe")

====
